---------------------------- MODULE Spec2Model ----------------------------
(***************************************************************************)
(* clicklint: a CREATE TABLE parser (nom combinators) and a two-rule lint  *)
(* runner, src/src/main.rs.                                                *)
(*                                                                         *)
(* A Rust &str / String is a sequence of characters, each character a      *)
(* one-character TLA+ string.  A nom IResult is a record                   *)
(* [ok, rest, out]: ok = FALSE is Err(nom::Err::Error(_)), otherwise rest  *)
(* is the remaining input and out the parsed value.  An Option is a record *)
(* [some, val].                                                            *)
(***************************************************************************)
EXTENDS Integers, Sequences, FiniteSets, TLC

VARIABLES
    input,           \* the &str handed to the parser
    gen,             \* how input was put together (history, never read by the program)
    pc,              \* control point of the running function
    res,             \* the IResult of the parse of input
    trail,           \* text appended to input for the second parse
    res2,            \* the IResult of the parse of input followed by trail
    idx,             \* position of the `for linter in &linters` loop, 1-based
    did_find_issue,  \* main.rs:15
    out,             \* standard output: one entry per println! call
    calls,           \* the linters main has invoked, in order
    results,         \* what each of them returned
    dup_results,     \* returns of successive check_duplicate_col_names calls
    short_results    \* returns of successive check_table_name_is_not_short calls

vars == <<input, gen, pc, res, trail, res2, idx, did_find_issue, out, calls,
          results, dup_results, short_results>>

---------------------------------------------------------------------------
(* Bounds of the model *)

MaxCols == 3
MaxLintCols == 4
MaxCalls == 2
MaxBodyCols == 2
MaxFrags == 4

---------------------------------------------------------------------------
(* Characters and strings *)

LowerMap ==
    [A |-> "a", B |-> "b", C |-> "c", D |-> "d", E |-> "e", F |-> "f", G |-> "g",
     H |-> "h", I |-> "i", J |-> "j", K |-> "k", L |-> "l", M |-> "m", N |-> "n",
     O |-> "o", P |-> "p", Q |-> "q", R |-> "r", S |-> "s", T |-> "t", U |-> "u",
     V |-> "v", W |-> "w", X |-> "x", Y |-> "y", Z |-> "z"]

\* char::to_lowercase on the characters the model uses
to_lowercase(c) == IF c \in DOMAIN LowerMap THEN LowerMap[c] ELSE c

\* char::to_uppercase, used only to build inputs
to_uppercase(c) ==
    IF \E u \in DOMAIN LowerMap : LowerMap[u] = c
    THEN CHOOSE u \in DOMAIN LowerMap : LowerMap[u] = c
    ELSE c

\* number of bytes of the UTF-8 encoding of a character
len_utf8(c) == IF c = "é" THEN 2 ELSE 1

RECURSIVE str_len(_)
\* str::len: the length of a string in bytes
str_len(s) == IF s = <<>> THEN 0 ELSE len_utf8(Head(s)) + str_len(Tail(s))

Drop(s, n) == SubSeq(s, n + 1, Len(s))
Take(s, n) == SubSeq(s, 1, n)

RECURSIVE Concat(_)
Concat(ss) == IF ss = <<>> THEN <<>> ELSE Head(ss) \o Concat(Tail(ss))

Digits == <<"0", "1", "2", "3", "4", "5", "6", "7", "8", "9">>

RECURSIVE fmt_display_int(_)
\* `{}` of an integer: its decimal digits
fmt_display_int(n) ==
    IF n < 10 THEN <<Digits[n + 1]>>
    ELSE fmt_display_int(n \div 10) \o <<Digits[(n % 10) + 1]>>

---------------------------------------------------------------------------
(* nom results and the combinators main.rs uses *)

Some(v) == [some |-> TRUE, val |-> v]
None == [some |-> FALSE, val |-> <<>>]

Ok(rest, o) == [ok |-> TRUE, rest |-> rest, out |-> o]
Fail == [ok |-> FALSE, rest |-> <<>>, out |-> <<>>]

\* nom::bytes::complete::tag
tag(t, i) ==
    IF Len(i) >= Len(t) /\ Take(i, Len(t)) = t
    THEN Ok(Drop(i, Len(t)), Take(i, Len(t)))
    ELSE Fail

\* tag_no_case as it would be if it compared the characters as they are
tag_no_case_sensitive(t, i) == tag(t, i)

\* nom::bytes::complete::tag_no_case: character-wise comparison of the
\* lowercased characters, then a split after the tag's length
tag_no_case(t, i) ==
    IF /\ str_len(i) >= str_len(t)
       /\ \A k \in 1..Len(t) : k <= Len(i) => to_lowercase(i[k]) = to_lowercase(t[k])
    THEN Ok(Drop(i, Len(t)), Take(i, Len(t)))
    ELSE Fail

\* nom::combinator::opt around tag_no_case: never fails
opt_tag_no_case(t, i) ==
    LET r == tag_no_case(t, i)
    IN  IF r.ok THEN Ok(r.rest, Some(r.out)) ELSE Ok(i, None)

\* nom::bytes::complete::take_until(" "): everything before the first
\* space, possibly nothing; an error when the input has no space
take_until_space(i) ==
    IF \E k \in 1..Len(i) : i[k] = " "
    THEN LET p == CHOOSE k \in 1..Len(i) :
                      i[k] = " " /\ \A j \in 1..(k - 1) : i[j] # " "
         IN  Ok(Drop(i, p - 1), Take(i, p - 1))
    ELSE Fail

WhiteSpace == {" ", "\t", "\r", "\n"}

\* nom::bytes::complete::is_a(" \t\r\n"): the longest non-empty prefix
\* of characters of the set
is_a_whitespace(i) ==
    LET n == IF \E k \in 1..Len(i) : i[k] \notin WhiteSpace
             THEN (CHOOSE k \in 1..Len(i) :
                       i[k] \notin WhiteSpace /\ \A j \in 1..(k - 1) : i[j] \in WhiteSpace) - 1
             ELSE Len(i)
    IN  IF n = 0 THEN Fail ELSE Ok(Drop(i, n), Take(i, n))

TyDate == <<"D", "a", "t", "e">>
TyString == <<"S", "t", "r", "i", "n", "g">>

\* alt((tag("Date"), tag("String")))
alt_col_type(i) ==
    LET d == tag(TyDate, i)
    IN  IF d.ok THEN d ELSE tag(TyString, i)

---------------------------------------------------------------------------
(* The parsers *)

Col(name, col_type) == [name |-> name, col_type |-> col_type]

parse_col(i0) ==
    LET r1 == take_until_space(i0) IN
    IF ~r1.ok THEN Fail ELSE
    LET r2 == is_a_whitespace(r1.rest) IN
    IF ~r2.ok THEN Fail ELSE
    LET r3 == alt_col_type(r2.rest) IN
    IF ~r3.ok THEN Fail ELSE
    Ok(r3.rest, Col(r1.out, r3.out))

CommaSpace == <<",", " ">>

RECURSIVE separated_list0_more(_, _)
\* the loop of separated_list0: a separator then an element, until either
\* fails; the input is then left where the last element ended
separated_list0_more(i, acc) ==
    LET s == tag(CommaSpace, i) IN
    IF ~s.ok THEN Ok(i, acc) ELSE
    LET e == parse_col(s.rest) IN
    IF ~e.ok THEN Ok(i, acc) ELSE
    separated_list0_more(e.rest, Append(acc, e.out))

\* nom::multi::separated_list0(tag(", "), parse_col)
separated_list0_cols(i) ==
    LET e == parse_col(i) IN
    IF ~e.ok THEN Ok(i, <<>>) ELSE separated_list0_more(e.rest, <<e.out>>)

KwCreateTable == <<"c", "r", "e", "a", "t", "e", " ", "t", "a", "b", "l", "e", " ">>
KwIfNotExists == <<"i", "f", " ", "n", "o", "t", " ", "e", "x", "i", "s", "t", "s">>

Table(name, columns, if_not_exists) ==
    [name |-> name, columns |-> columns, if_not_exists |-> if_not_exists]

\* parse_table as it would be if it skipped the spaces after IF NOT EXISTS
parse_table_skip_spaces(i0) ==
    LET r1 == tag_no_case(KwCreateTable, i0) IN
    IF ~r1.ok THEN Fail ELSE
    LET r2 == opt_tag_no_case(KwIfNotExists, r1.rest) IN
    LET if_not_exists == r2.out.some IN
    LET sp == is_a_whitespace(r2.rest) IN
    LET r3 == take_until_space(IF if_not_exists /\ sp.ok THEN sp.rest ELSE r2.rest) IN
    IF ~r3.ok THEN Fail ELSE
    LET r4 == tag(<<" ">>, r3.rest) IN
    IF ~r4.ok THEN Fail ELSE
    LET r5 == tag(<<"(">>, r4.rest) IN
    IF ~r5.ok THEN Fail ELSE
    LET r6 == separated_list0_cols(r5.rest) IN
    LET r7 == tag(<<")">>, r6.rest) IN
    IF ~r7.ok THEN Fail ELSE
    Ok(r7.rest, Table(r3.out, r6.out, if_not_exists))

parse_table(i0) ==
    LET r1 == tag_no_case(KwCreateTable, i0) IN
    IF ~r1.ok THEN Fail ELSE
    LET r2 == opt_tag_no_case(KwIfNotExists, r1.rest) IN
    LET if_not_exists == r2.out.some IN
    LET r3 == take_until_space(r2.rest) IN
    IF ~r3.ok THEN Fail ELSE
    LET r4 == tag(<<" ">>, r3.rest) IN
    IF ~r4.ok THEN Fail ELSE
    LET r5 == tag(<<"(">>, r4.rest) IN
    IF ~r5.ok THEN Fail ELSE
    LET r6 == separated_list0_cols(r5.rest) IN
    LET r7 == tag(<<")">>, r6.rest) IN
    IF ~r7.ok THEN Fail ELSE
    Ok(r7.rest, Table(r3.out, r6.out, if_not_exists))

---------------------------------------------------------------------------
(* The lint rules *)

DupPrefix ==
    <<"D", "u", "p", "l", "i", "c", "a", "t", "e", "d", " ", "c", "o", "l", "u", "m", "n", " ">>
DupMiddle ==
    <<" ", "w", "a", "s", " ", "e", "n", "c", "o", "u", "n", "t", "e", "r", "e", "d", " ">>
DupSuffix == <<" ", "t", "i", "m", "e", "s", ".", "\n">>

\* format!("Duplicated column {} was encountered {} times.\n", name, count)
fmt_duplicated(name, count) ==
    DupPrefix \o name \o DupMiddle \o fmt_display_int(count) \o DupSuffix

RECURSIVE count_col_names(_, _)
\* the HashMap after the first k columns went through
\* `*col_names.entry(col.name.clone()).or_insert(0) += 1`
count_col_names(columns, k) ==
    IF k = 0 THEN [n \in {} |-> 0]
    ELSE LET m == count_col_names(columns, k - 1)
             name == columns[k].name
         IN  [n \in DOMAIN m \cup {name} |->
                 IF n = name
                 THEN (IF name \in DOMAIN m THEN m[name] ELSE 0) + 1
                 ELSE m[n]]

\* The orders in which `for entry in &col_names` may visit a HashMap:
\* std's RandomState seeds every map differently, so any order of the keys
hash_orders(m) ==
    LET n == Cardinality(DOMAIN m)
    IN  {o \in [1..n -> DOMAIN m] : \A a, b \in 1..n : a # b => o[a] # o[b]}

RECURSIVE dup_errors_from_one(_, _, _)
\* dup_errors as it would be with `*entry.1 >= 1`
dup_errors_from_one(m, order, k) ==
    IF k = 0 THEN <<>>
    ELSE LET errors == dup_errors_from_one(m, order, k - 1)
             entry == order[k]
         IN  IF m[entry] >= 1
             THEN errors \o fmt_duplicated(entry, m[entry])
             ELSE errors

RECURSIVE dup_errors(_, _, _)
\* `errors` after the first k entries of the visit were looked at
dup_errors(m, order, k) ==
    IF k = 0 THEN <<>>
    ELSE LET errors == dup_errors(m, order, k - 1)
             entry == order[k]
         IN  IF m[entry] > 1
             THEN errors \o fmt_duplicated(entry, m[entry])
             ELSE errors

\* check_duplicate_col_names, given the order the map is visited in
check_duplicate_col_names(t, order) ==
    LET col_names == count_col_names(t.columns, Len(t.columns))
        errors == dup_errors(col_names, order, Len(order))
    IN  IF Len(errors) = 0 THEN None ELSE Some(errors)

\* every value a call of check_duplicate_col_names may return
dup_outcomes(t) ==
    {check_duplicate_col_names(t, o) :
        o \in hash_orders(count_col_names(t.columns, Len(t.columns)))}

MIN_LENGTH == 5

ShortPrefix ==
    <<"Y", "o", "u", "r", " ", "t", "a", "b", "l", "e", " ", "n", "a", "m", "e", " ", "'">>
ShortMiddle ==
    <<"'", " ", "i", "s", " ", "t", "o", "o", " ", "s", "h", "o", "r", "t", ".", " ",
      "W", "e", " ", "r", "e", "c", "o", "m", "m", "e", "n", "d", " ",
      "a", "t", " ", "l", "e", "a", "s", "t", " ">>
ShortSuffix == <<" ", "c", "h", "a", "r", "a", "c", "t", "e", "r", "s", ".">>

\* check_table_name_is_not_short as it would be with `<=`
check_table_name_le(t) ==
    IF str_len(t.name) <= MIN_LENGTH
    THEN Some(ShortPrefix \o t.name \o ShortMiddle
                  \o fmt_display_int(MIN_LENGTH) \o ShortSuffix)
    ELSE None

check_table_name_is_not_short(t) ==
    IF str_len(t.name) < MIN_LENGTH
    THEN Some(ShortPrefix \o t.name \o ShortMiddle
                  \o fmt_display_int(MIN_LENGTH) \o ShortSuffix)
    ELSE None

---------------------------------------------------------------------------
(* main: parse, then the loop over the linters *)

\* main.rs:14, the vec! of linters
linters == <<"check_duplicate_col_names", "check_table_name_is_not_short">>

\* what a call `linter(&table)` may return
linter_outcomes(linter, t) ==
    IF linter = "check_duplicate_col_names"
    THEN dup_outcomes(t)
    ELSE {check_table_name_is_not_short(t)}

Banner ==
    <<"e", "n", "c", "o", "u", "n", "t", "e", "r", "e", "d", " ",
      "e", "r", "r", "o", "r", ":", "\n", "\n">>
Congrats ==
    <<"C", "o", "n", "g", "r", "a", "t", "s", "!", " ", "Y", "o", "u", "r", " ",
      "t", "a", "b", "l", "e", " ", "l", "o", "o", "k", "s", " ", "f", "i", "n", "e">>

\* println!: the formatted text and a newline, in one write
println(s) == Append(out, s \o <<"\n">>)

\* `let (_, table) = parse_table(..)?` succeeds
MainParseOk ==
    /\ pc = "main"
    /\ parse_table(input).ok
    /\ res' = parse_table(input)
    /\ idx' = 1
    /\ did_find_issue' = FALSE
    /\ pc' = "loop"
    /\ UNCHANGED <<input, gen, trail, res2, out, calls, results,
                   dup_results, short_results>>

\* `parse_table(..)?` fails: main returns the error, nothing is linted
MainParseErr ==
    /\ pc = "main"
    /\ ~parse_table(input).ok
    /\ res' = parse_table(input)
    /\ pc' = "exit_err"
    /\ UNCHANGED <<input, gen, trail, res2, idx, did_find_issue, out, calls,
                   results, dup_results, short_results>>

\* the loop as it would be with a `break` after the first diagnostic
MainLinterBreak ==
    /\ pc = "loop"
    /\ idx <= Len(linters)
    /\ \E r \in linter_outcomes(linters[idx], res.out) :
          /\ calls' = Append(calls, linters[idx])
          /\ results' = Append(results, r)
          /\ IF r.some
             THEN /\ did_find_issue' = TRUE
                  /\ out' = println(Banner \o r.val)
                  /\ idx' = Len(linters) + 1
             ELSE /\ idx' = idx + 1
                  /\ UNCHANGED <<did_find_issue, out>>
    /\ UNCHANGED <<input, gen, pc, res, trail, res2, dup_results, short_results>>

\* one turn of `for linter in &linters`, main.rs:16-24
MainLinter ==
    /\ pc = "loop"
    /\ idx <= Len(linters)
    /\ \E r \in linter_outcomes(linters[idx], res.out) :
          /\ calls' = Append(calls, linters[idx])
          /\ results' = Append(results, r)
          /\ IF r.some
             THEN /\ did_find_issue' = TRUE
                  /\ out' = println(Banner \o r.val)
             ELSE UNCHANGED <<did_find_issue, out>>
    /\ idx' = idx + 1
    /\ UNCHANGED <<input, gen, pc, res, trail, res2, dup_results, short_results>>

\* the end of main as it would be without the `if !did_find_issue`
MainFinishAlways ==
    /\ pc = "loop"
    /\ idx > Len(linters)
    /\ out' = println(Congrats)
    /\ pc' = "exit_ok"
    /\ UNCHANGED <<input, gen, res, trail, res2, idx, did_find_issue, calls,
                   results, dup_results, short_results>>

\* after the loop, main.rs:25-28
MainFinish ==
    /\ pc = "loop"
    /\ idx > Len(linters)
    /\ out' = IF ~did_find_issue THEN println(Congrats) ELSE out
    /\ pc' = "exit_ok"
    /\ UNCHANGED <<input, gen, res, trail, res2, idx, did_find_issue, calls,
                   results, dup_results, short_results>>

---------------------------------------------------------------------------
(* Inputs *)

Casings == {"lower", "upper", "mixed"}

\* a keyword in one of its upper/lower casings
Casing(kw, mode) ==
    [k \in 1..Len(kw) |->
        IF mode = "upper" \/ (mode = "mixed" /\ k % 2 = 1)
        THEN to_uppercase(kw[k])
        ELSE kw[k]]

RenderCol(c) == c.name \o <<" ">> \o c.col_type

RECURSIVE JoinCols(_)
JoinCols(cols) ==
    IF cols = <<>> THEN <<>>
    ELSE IF Len(cols) = 1 THEN RenderCol(cols[1])
    ELSE RenderCol(cols[1]) \o CommaSpace \o JoinCols(Tail(cols))

\* the statement text of a table: keyword, name, " (", the columns, ")"
Render(mode, name, cols) ==
    Casing(KwCreateTable, mode) \o name \o <<" ", "(">> \o JoinCols(cols) \o <<")">>

SeqsUpTo(S, n) == UNION {[1..k -> S] : k \in 0..n}

\* table names: no space; byte lengths 0, 1, 4, 5 (four characters), 5, 8
Names ==
    {<<>>, <<"t">>, <<"t", "a", "b", "l">>, <<"t", "b", "l", "é">>,
     <<"t", "a", "b", "l", "e">>, <<"l", "o", "n", "g", "n", "a", "m", "e">>}

my_date == <<"m", "y", "_", "d", "a", "t", "e">>
my_string == <<"m", "y", "_", "s", "t", "r", "i", "n", "g">>

ColChoices ==
    {Col(my_date, TyDate), Col(my_string, TyString), Col(<<"x">>, TyDate),
     Col(<<"x">>, TyString), Col(<<>>, TyDate), Col(<<"a", "\t", ",">>, TyString)}

LintColChoices ==
    {Col(my_date, TyDate), Col(<<"x">>, TyDate), Col(<<"x">>, TyString),
     Col(<<"y">>, TyString)}

NoGen == [shape |-> "none"]

Idle ==
    /\ trail = <<>>
    /\ res2 = Fail
    /\ idx = 0
    /\ did_find_issue = FALSE
    /\ out = <<>>
    /\ calls = <<>>
    /\ results = <<>>
    /\ dup_results = <<>>
    /\ short_results = <<>>

---------------------------------------------------------------------------
(* main on a statement, or on a statement that lost its last character *)

Init ==
    /\ gen \in [shape : {"statement", "truncated"}, mode : Casings,
                name : Names, cols : SeqsUpTo(ColChoices, MaxCols)]
    /\ input = IF gen.shape = "statement"
               THEN Render(gen.mode, gen.name, gen.cols)
               ELSE Take(Render(gen.mode, gen.name, gen.cols),
                         Len(Render(gen.mode, gen.name, gen.cols)) - 1)
    /\ pc = "main"
    /\ res = Fail
    /\ Idle

Next == MainParseOk \/ MainParseErr \/ MainLinter \/ MainFinish

Spec == Init /\ [][Next]_vars

---------------------------------------------------------------------------
(* The rules called repeatedly on one parsed table *)

\* a further call of check_duplicate_col_names on the same table
CallDup ==
    /\ pc = "parsed"
    /\ Len(dup_results) < MaxCalls
    /\ \E r \in dup_outcomes(res.out) : dup_results' = Append(dup_results, r)
    /\ UNCHANGED <<input, gen, pc, res, trail, res2, idx, did_find_issue, out,
                   calls, results, short_results>>

\* a further call of check_table_name_is_not_short on the same table
CallShort ==
    /\ pc = "parsed"
    /\ Len(short_results) < MaxCalls
    /\ short_results' = Append(short_results, check_table_name_is_not_short(res.out))
    /\ UNCHANGED <<input, gen, pc, res, trail, res2, idx, did_find_issue, out,
                   calls, results, dup_results>>

InitLint ==
    /\ gen \in [shape : {"statement"}, mode : {"upper"},
                name : Names, cols : SeqsUpTo(LintColChoices, MaxLintCols)]
    /\ input = Render(gen.mode, gen.name, gen.cols)
    /\ res = parse_table(input)
    /\ res.ok
    /\ pc = "parsed"
    /\ Idle

NextLint == CallDup \/ CallShort

SpecLint == InitLint /\ [][NextLint]_vars

---------------------------------------------------------------------------
(* parse_table on well-formed and malformed statements *)

ParseTableOk ==
    /\ pc = "parse_table"
    /\ parse_table(input).ok
    /\ res' = parse_table(input)
    /\ pc' = "parsed"
    /\ UNCHANGED <<input, gen, trail, res2, idx, did_find_issue, out, calls,
                   results, dup_results, short_results>>

ParseTableErr ==
    /\ pc = "parse_table"
    /\ ~parse_table(input).ok
    /\ res' = parse_table(input)
    /\ pc' = "failed"
    /\ UNCHANGED <<input, gen, trail, res2, idx, did_find_issue, out, calls,
                   results, dup_results, short_results>>

a_Date == <<"a", " ", "D", "a", "t", "e">>

\* texts that may follow a statement
Trails ==
    {<<";">>, <<" ", "D", "a", "t", "e">>, <<" ", "D", "a", "t", "e", ")">>,
     <<",", " ">> \o a_Date \o <<")">>, <<"\n">>}

\* parse_table on the same statement followed by more text
ParseTrailing ==
    /\ pc = "parsed"
    /\ \E x \in Trails :
          /\ trail' = x
          /\ res2' = parse_table(input \o x)
    /\ pc' = "reparsed"
    /\ UNCHANGED <<input, gen, res, idx, did_find_issue, out, calls, results,
                   dup_results, short_results>>

\* column texts: two good ones, an empty name, a lower-cased type
BodyTexts ==
    {a_Date, <<"b", " ", "S", "t", "r", "i", "n", "g">>,
     <<" ", "D", "a", "t", "e">>, <<"a", " ", "d", "a", "t", "e">>}

RECURSIVE JoinTexts(_)
JoinTexts(ts) ==
    IF ts = <<>> THEN <<>>
    ELSE IF Len(ts) = 1 THEN ts[1]
    ELSE ts[1] \o CommaSpace \o JoinTexts(Tail(ts))

InitParse ==
    /\ gen \in [shape : {"parts"},
                kw : {Casing(KwCreateTable, "lower"), Casing(KwCreateTable, "upper"),
                      Take(KwCreateTable, Len(KwCreateTable) - 1)},
                ine : {<<>>, Casing(KwIfNotExists, "lower"), Casing(KwIfNotExists, "upper")},
                sep : {<<>>, <<" ">>},
                name : {<<>>, <<"t">>, <<"f", "o", "o">>},
                open : {<<" ", "(">>, <<"(">>},
                body : SeqsUpTo(BodyTexts, MaxBodyCols),
                close : {<<")">>, <<>>}]
    /\ input = gen.kw \o gen.ine \o gen.sep \o gen.name \o gen.open
                   \o JoinTexts(gen.body) \o gen.close
    /\ pc = "parse_table"
    /\ res = Fail
    /\ Idle

NextParse == ParseTableOk \/ ParseTableErr \/ ParseTrailing

SpecParse == InitParse /\ [][NextParse]_vars

---------------------------------------------------------------------------
(* parse_col on texts put together from fragments *)

ParseColOk ==
    /\ pc = "parse_col"
    /\ parse_col(input).ok
    /\ res' = parse_col(input)
    /\ pc' = "parsed"
    /\ UNCHANGED <<input, gen, trail, res2, idx, did_find_issue, out, calls,
                   results, dup_results, short_results>>

ParseColErr ==
    /\ pc = "parse_col"
    /\ ~parse_col(input).ok
    /\ res' = parse_col(input)
    /\ pc' = "failed"
    /\ UNCHANGED <<input, gen, trail, res2, idx, did_find_issue, out, calls,
                   results, dup_results, short_results>>

ColFrags ==
    {<<"n">>, <<" ">>, <<"\t">>, TyDate, TyString, <<"d", "a", "t", "e">>, <<",">>}

InitCol ==
    /\ gen \in [shape : {"frags"}, frags : SeqsUpTo(ColFrags, MaxFrags)]
    /\ input = Concat(gen.frags)
    /\ pc = "parse_col"
    /\ res = Fail
    /\ Idle

NextCol == ParseColOk \/ ParseColErr

SpecCol == InitCol /\ [][NextCol]_vars

---------------------------------------------------------------------------
(* Properties of parse_table and parse_col *)

ColTypes == {TyDate, TyString}

\* C1: every Table parse_table returns has a non-empty name and only
\* columns whose col_type is "Date" or "String".
C1_AcceptedTableWellFormed ==
    (pc \in {"parsed", "reparsed"} /\ res.ok) =>
        /\ res.out.name # <<>>
        /\ \A k \in DOMAIN res.out.columns : res.out.columns[k].col_type \in ColTypes

\* C2: the text of a table (keyword in any casing, name without space,
\* columns "<name> <type>" joined by ", ") parses to exactly that table,
\* if_not_exists = false, and nothing is left over.
C2_RenderedStatementParses ==
    (pc # "main" /\ gen.shape = "statement") =>
        res = Ok(<<>>, Table(gen.name, gen.cols, FALSE))

C2_Witness ==
    /\ pc = "loop"
    /\ gen.shape = "statement"
    /\ gen.mode = "mixed"
    /\ gen.name = <<"t", "b", "l", "é">>
    /\ Len(gen.cols) = MaxCols
    /\ res.ok
    /\ res.out.columns = gen.cols

\* C3: text after the closing ")" changes nothing: a statement accepted
\* with nothing left over is, followed by any text, accepted with the same
\* Table and that text left over.
C3_TrailingInputIgnored ==
    (pc = "reparsed" /\ res.rest = <<>>) =>
        /\ res2.ok
        /\ res2.out = res.out
        /\ res2.rest = trail

FirstSpace(i) ==
    IF \E k \in 1..Len(i) : i[k] = " "
    THEN CHOOSE k \in 1..Len(i) : i[k] = " " /\ \A j \in 1..(k - 1) : i[j] # " "
    ELSE 0

RECURSIVE SkipWhiteSpace(_)
SkipWhiteSpace(i) ==
    IF i # <<>> /\ Head(i) \in WhiteSpace THEN SkipWhiteSpace(Tail(i)) ELSE i

StartsWith(i, t) == Len(i) >= Len(t) /\ SubSeq(i, 1, Len(t)) = t

\* the three cases in which parse_col is said to fail
EmptyIdentifier(i) == FirstSpace(i) = 1
NoWhiteSpaceFollows(i) == FirstSpace(i) = 0
UnknownType(i) ==
    LET token == SkipWhiteSpace(SubSeq(i, FirstSpace(i), Len(i)))
    IN  ~StartsWith(token, TyDate) /\ ~StartsWith(token, TyString)

\* C4: parse_col fails when the identifier before the first space is
\* empty, when no whitespace follows the identifier, and when the token
\* after the whitespace starts with neither "Date" nor "String"; in every
\* other case it returns a Column.
C4_ParseColFailsExactlyWhen ==
    (pc \in {"parsed", "failed"}) =>
        (~res.ok <=> \/ EmptyIdentifier(input)
                     \/ NoWhiteSpaceFollows(input)
                     \/ UnknownType(input))

\* the part of the input after the two keywords, when both are there
AfterIfNotExists ==
    LET r1 == tag_no_case(KwCreateTable, input)
        r2 == IF r1.ok THEN tag_no_case(KwIfNotExists, r1.rest) ELSE Fail
    IN  r2

\* C10: when IF NOT EXISTS is matched and a space comes right after it,
\* parse_table fails or returns a Table with the empty name; a Table with
\* if_not_exists = true and a non-empty name comes only from a name that
\* directly abuts the keyword.
C10_IfNotExistsThenSpace ==
    (pc \in {"parsed", "failed"}) =>
        /\ (AfterIfNotExists.ok /\ StartsWith(AfterIfNotExists.rest, <<" ">>)) =>
               (~res.ok \/ res.out.name = <<>>)
        /\ (res.ok /\ res.out.if_not_exists /\ res.out.name # <<>>) =>
               /\ AfterIfNotExists.ok
               /\ StartsWith(AfterIfNotExists.rest, res.out.name \o <<" ">>)

ConventionalForm ==
    Casing(KwCreateTable, "upper") \o Casing(KwIfNotExists, "upper")
        \o <<" ", "f", "o", "o", " ", "(">> \o a_Date \o <<")">>

\* CREATE TABLE IF NOT EXISTS foo (a Date) went through parse_table
C10_Witness ==
    /\ pc = "failed"
    /\ input = ConventionalForm
    /\ AfterIfNotExists.ok
    /\ StartsWith(AfterIfNotExists.rest, <<" ">>)

---------------------------------------------------------------------------
(* Properties of the lint rules *)

ColNames(t) == {t.columns[k].name : k \in DOMAIN t.columns}
Multiplicity(t, n) == Cardinality({k \in DOMAIN t.columns : t.columns[k].name = n})
Duplicated(t) == {n \in ColNames(t) : Multiplicity(t, n) > 1}

Orders(S) ==
    {o \in [1..Cardinality(S) -> S] : \A a, b \in DOMAIN o : a # b => o[a] # o[b]}

\* "Duplicated column <name> was encountered <count> times." and its newline
DupLine(n, c) ==
    <<"D", "u", "p", "l", "i", "c", "a", "t", "e", "d", " ",
      "c", "o", "l", "u", "m", "n", " ">> \o n
    \o <<" ", "w", "a", "s", " ", "e", "n", "c", "o", "u", "n", "t", "e", "r", "e", "d", " ">>
    \o fmt_display_int(c) \o <<" ", "t", "i", "m", "e", "s", ".", "\n">>

\* C6: a rule called twice on the same Table returns the same value twice,
\* also when two or more column names are each duplicated.
C6_RulesArePure ==
    /\ \A a, b \in DOMAIN dup_results : dup_results[a] = dup_results[b]
    /\ \A a, b \in DOMAIN short_results : short_results[a] = short_results[b]

\* C7: check_duplicate_col_names returns None exactly when the column
\* names are pairwise distinct; otherwise one diagnostic made of exactly one
\* line per name of multiplicity > 1, carrying that multiplicity.
C7_DuplicateColNames ==
    \A a \in DOMAIN dup_results :
        LET r == dup_results[a]
            t == res.out
        IN  /\ ~r.some <=> Duplicated(t) = {}
            /\ r.some =>
                  \E o \in Orders(Duplicated(t)) :
                      r.val = Concat([k \in DOMAIN o |-> DupLine(o[k], Multiplicity(t, o[k]))])

C7_Witness ==
    /\ pc = "parsed"
    /\ Len(dup_results) >= 1
    /\ dup_results[1].some
    /\ Cardinality(Duplicated(res.out)) = 2
    /\ Cardinality(ColNames(res.out)) = 2

\* C8: check_table_name_is_not_short returns "Your table name '<name>' is
\* too short. We recommend at least 5 characters." exactly when the name is
\* less than 5 bytes long, and None for every name of 5 bytes or more.
C8_TableNameLength ==
    \A a \in DOMAIN short_results :
        LET r == short_results[a]
            name == res.out.name
        IN  /\ r.some <=> str_len(name) \in 0..4
            /\ r.some =>
                  r.val = ShortPrefix \o name
                          \o <<"'", " ", "i", "s", " ", "t", "o", "o", " ",
                               "s", "h", "o", "r", "t", ".", " ", "W", "e", " ",
                               "r", "e", "c", "o", "m", "m", "e", "n", "d", " ",
                               "a", "t", " ", "l", "e", "a", "s", "t", " ", "5", " ",
                               "c", "h", "a", "r", "a", "c", "t", "e", "r", "s", ".">>

C8_Witness ==
    /\ pc = "parsed"
    /\ Len(short_results) >= 1
    /\ short_results[1].some
    /\ str_len(res.out.name) = 4

---------------------------------------------------------------------------
(* Properties of the runner *)

CongratsLine == Congrats \o <<"\n">>
CongratsCount == Cardinality({k \in DOMAIN out : out[k] = CongratsLine})
AnyDiagnostic == \E k \in DOMAIN results : results[k].some

\* C5: no "Congrats! Your table looks fine" line when a rule returned a
\* diagnostic; exactly one, printed after every rule was evaluated, when
\* none did.
C5_CongratsIffClean ==
    /\ pc = "loop" => CongratsCount = 0
    /\ pc = "exit_ok" =>
          /\ Len(results) = Len(linters)
          /\ AnyDiagnostic => CongratsCount = 0
          /\ ~AnyDiagnostic => (CongratsCount = 1 /\ out[Len(out)] = CongratsLine)

C5_Witness ==
    /\ pc = "exit_ok"
    /\ ~AnyDiagnostic
    /\ CongratsCount = 1

RECURSIVE Banners(_)
\* what the diagnostics of rs put on standard output, in the order of rs
Banners(rs) ==
    IF rs = <<>> THEN <<>>
    ELSE (IF Head(rs).some
          THEN <<<<"e", "n", "c", "o", "u", "n", "t", "e", "r", "e", "d", " ",
                   "e", "r", "r", "o", "r", ":", "\n", "\n">> \o Head(rs).val \o <<"\n">>>>
          ELSE <<>>) \o Banners(Tail(rs))

\* C9: every rule is invoked exactly once, R1 then R2, whatever the
\* earlier rule returned; each diagnostic is printed once as the banner
\* "encountered error:", a blank line and its text, in rule order.
C9_AllRulesRunInOrder ==
    /\ pc = "loop" =>
          /\ calls = SubSeq(linters, 1, idx - 1)
          /\ out = Banners(results)
    /\ pc = "exit_ok" =>
          /\ calls = <<"check_duplicate_col_names", "check_table_name_is_not_short">>
          /\ Len(results) = 2
          /\ results[1] \in dup_outcomes(res.out)
          /\ results[2] = check_table_name_is_not_short(res.out)
          /\ out = Banners(results) \o (IF AnyDiagnostic THEN <<>> ELSE <<CongratsLine>>)

C9_Witness ==
    /\ pc = "exit_ok"
    /\ results[1].some
    /\ results[2].some
    /\ Len(out) = 2
    /\ StartsWith(out[1], Banner \o DupPrefix)
    /\ StartsWith(out[2], Banner \o ShortPrefix)

=============================================================================
